---- MODULE Spec2Model ----
(***************************************************************************)
(* Model of src/supabaseClient.js: a browser-side adapter that keeps one   *)
(* shared backend client handle, one interval timer handle and a           *)
(* last-known-state cache, and talks to two remote tables (app_data,       *)
(* app_backups) and one realtime channel.                                  *)
(*                                                                         *)
(* JavaScript runs the adapter on one event loop: a function runs          *)
(* uninterrupted up to its next await, where it issues a backend request   *)
(* and suspends.  The model has one action per such segment and keeps the  *)
(* suspended calls in the bag inflight.  The action that resumes a call    *)
(* takes the backend's answer to the pending request (ok, an error, or an  *)
(* exception of the client library), applies the request's effect on the   *)
(* tables and runs the function up to its next await or its return.        *)
(***************************************************************************)
EXTENDS Integers, Sequences, FiniteSets, Bags

\* ------------------------------------------------------------------ bounds
MaxInFlight == 2    \* suspended async calls at any one time
MaxBackups == 2     \* rows the backup table can take
MaxTimers == 2      \* interval timer ids the host hands out
MaxChannels == 1    \* realtime channels opened

\* ------------------------------------------------------------------ values
\* JavaScript null / undefined.
Null == "null"
\* Truthy application states (JSON objects).
States == {"s1", "s2"}
\* What a caller can pass as state: an application state or null.
Values == States \cup {Null}
\* The timer handle before any timer was started (null, falsy like 0); timer ids
\* are positive integers.
NoTimer == 0
\* maybeSingle() found no row.
NoRow == "norow"
\* The fixed id of the primary row (lines 138, 227).
GlobalId == "global_state"

\* Keys are sequences of characters; <<>> is the empty string.
NoKey == <<>>
Key3 == <<"a", ".", "b", ".", "c">>
KeyW == <<"w", ".", "w", ".", "w">>
Key2 == <<"a", ".", "b">>
Key4 == <<"a", ".", "b", ".", "c", ".", "d">>
KeyDash == <<"-", ".", "b", ".", "c">>
KeyEmptySeg == <<"a", ".", ".", "c">>
\* The client handle before initialization (null).
NoClient == [url |-> "", key |-> NoKey]
\* Keys a caller passes to initSupabase ('' when omitted).
ArgKeys == {NoKey, Key3, Key2, Key4, KeyDash, KeyEmptySeg}
ArgUrls == {"", "ua"}
\* window.SUPABASE_URL / window.SUPABASE_ANON_KEY when the page sets them.
WinUrls == {"", "uw"}
WinKeys == {NoKey, KeyW}
\* Characters the regular expression class \w matches.
WordChars == {"a", "b", "c", "d", "w"}
\* Arguments of startAutoBackup (minutes).
IntervalArgs == {0, 1}
\* What window.getFullState does when a tick consults it: it is no function,
\* it throws, or it returns a value.
Accessors == {"absent", "throws"} \cup Values
\* The onUpdate argument of subscribeRealtime: a function or not.
Callbacks == {"function", "none"}

VARIABLES
    supabaseClient,   \* line 17: NoClient or the client handle [url, key]
    autoBackupTimer,  \* line 19: NoTimer or the id of the timer last started
    lastSavedState,   \* line 21: the last-known-state cache
    localStorage,     \* [url, key]: entries pdv_supabase_url / pdv_supabase_anon_key
    window,           \* host globals the module reads
    timers,           \* active interval timers: set of [id, ms]
    channels,         \* realtime channels: sequence of onUpdate kinds
    app_data,         \* primary table: set of rows [id, data]
    app_backups,      \* backup table: set of rows [id, created_at, data]
    inflight,         \* bag of suspended async calls
    ret               \* what the step just taken returned to its caller

vars == <<supabaseClient, autoBackupTimer, lastSavedState, localStorage, window,
          timers, channels, app_data, app_backups, inflight, ret>>

adapter == <<supabaseClient, autoBackupTimer, lastSavedState, localStorage, window,
             timers, channels>>
tables == <<app_data, app_backups>>

\* ------------------------------------------------------------ pure helpers
Truthy(v) == v # Null

IsWord(c) == c \in WordChars

\* /\w+\.\w+\.\w+/.test(k): the expression is not anchored, so it looks for
\* word characters, a dot, word characters, a dot, word characters anywhere in k.
isJwt(k) ==
    \E p \in 1..Len(k) : \E q \in 1..Len(k) :
        /\ p > 1 /\ q > p + 1 /\ q < Len(k)
        /\ k[p] = "." /\ k[q] = "."
        /\ IsWord(k[p - 1]) /\ IsWord(k[q + 1])
        /\ \A r \in (p + 1)..(q - 1) : IsWord(k[r])

\* Number of dot-separated segments of k (k.split('.').length).
Segments(k) == 1 + Cardinality({p \in 1..Len(k) : k[p] = "."})

\* localStorage access throws when window.storage is FALSE (blocked storage).
getStoredCreds ==
    IF window.storage THEN localStorage ELSE [url |-> "", key |-> NoKey]

setStoredCreds(url, key) ==
    IF window.storage THEN [url |-> url, key |-> key] ELSE localStorage

resolveCreateClient == window.supabase

\* b || a || c: local storage before the argument.
OrElseStoredFirst(a, b, c, empty) == IF b # empty THEN b ELSE IF a # empty THEN a ELSE c

\* a || b || c on strings.
OrElse(a, b, c, empty) == IF a # empty THEN a ELSE IF b # empty THEN b ELSE c

\* The function op, called with in, returns (or throws) val.
Returned(op, in, val) == [op |-> op, in |-> in, val |-> val]

\* ---------------------------------------------------------------- initial
\* The step returned nothing: a call suspended at an await, or moved to its next.
NoRet == Returned("none", Null, Null)

InitAdapter ==
    /\ supabaseClient = NoClient
    /\ autoBackupTimer = NoTimer
    /\ lastSavedState = Null
    /\ timers = {}
    /\ channels = <<>>
    /\ app_data = {}
    /\ app_backups = {}
    /\ inflight = EmptyBag
    /\ ret = NoRet

\* A page with the library loaded, working storage, no stored or global credentials.
Init ==
    /\ InitAdapter
    /\ localStorage = [url |-> "", key |-> NoKey]
    /\ window = [SUPABASE_URL |-> "", SUPABASE_ANON_KEY |-> NoKey,
                 supabase |-> TRUE, storage |-> TRUE]

\* Any page: library loaded or not, storage working or blocked, global
\* fallbacks set or not, credentials of an earlier visit stored or not.
InitConn ==
    /\ InitAdapter
    /\ localStorage \in {[url |-> "", key |-> NoKey], [url |-> "us", key |-> KeyW]}
    /\ window \in [SUPABASE_URL : WinUrls, SUPABASE_ANON_KEY : WinKeys,
                   supabase : BOOLEAN, storage : BOOLEAN]

\* ------------------------------------------------------------ initSupabase
\* Lines 52-53: credentials given -> localStorage -> global variables.
ResolveUrl(url) == OrElse(url, getStoredCreds.url, window.SUPABASE_URL, "")
ResolveKey(key) == OrElse(key, getStoredCreds.key, window.SUPABASE_ANON_KEY, NoKey)

initSupabase(url, key) ==
    LET supaUrl == ResolveUrl(url)
        supaKey == ResolveKey(key)
        in == [url |-> url, key |-> key]
    IN  /\ UNCHANGED <<autoBackupTimer, lastSavedState, window, timers, channels,
                       app_data, app_backups, inflight>>
        /\ IF supaUrl = "" \/ supaKey = NoKey
           THEN /\ ret' = Returned("initSupabase", in, "throw_missing")
                /\ UNCHANGED <<supabaseClient, localStorage>>
           ELSE IF ~isJwt(supaKey)
           THEN /\ ret' = Returned("initSupabase", in, "throw_invalid")
                /\ UNCHANGED <<supabaseClient, localStorage>>
           ELSE /\ localStorage' = setStoredCreds(supaUrl, supaKey)
                /\ IF ~resolveCreateClient
                   THEN /\ ret' = Returned("initSupabase", in, "throw_nolib")
                        /\ UNCHANGED supabaseClient
                   ELSE /\ supabaseClient' = [url |-> supaUrl, key |-> supaKey]
                        /\ ret' = Returned("initSupabase", in, "client")

\* ------------------------------------------------------- suspended calls
\* A suspended async call: the function (op), the await it is suspended at (pc),
\* its argument (arg: a state, id: a backup id or a timer id) and its local st
\* (the state read from a backup row).
Call(op, pc, arg, id) == [op |-> op, pc |-> pc, arg |-> arg, id |-> id, st |-> Null]

Suspended == BagToSet(inflight)
Room == BagCardinality(inflight) < MaxInFlight
Put(r) == inflight (+) SetToBag({r})
Drop(r) == inflight (-) SetToBag({r})
Swap(r, r2) == (inflight (-) SetToBag({r})) (+) SetToBag({r2})

\* ------------------------------------------------------------- the backend
\* How the backend answers a request: it carries it out, it answers { error },
\* or the client library throws (network failure).  Only "ok" changes a table.
Outcomes == {"ok", "error", "throw"}

\* insert(payload) into app_backups: the backend generates id and created_at.
InsertBackup(table, state) ==
    table \cup {[id |-> Cardinality(table) + 1,
                 created_at |-> Cardinality(table) + 1,
                 data |-> state]}

\* An upsert that ignores the conflict on id: a plain insert.
UpsertNoConflict(table, row) == table \cup {row}

\* upsert(row, { onConflict: 'id' }).
Upsert(table, row) == {x \in table : x.id # row.id} \cup {row}

\* order('created_at', { ascending: false }).
RECURSIVE OrderDesc(_)
OrderDesc(rows) ==
    IF rows = {} THEN <<>>
    ELSE LET newest == CHOOSE x \in rows : \A y \in rows : y.created_at <= x.created_at
         IN  <<newest>> \o OrderDesc(rows \ {newest})

\* select('*').limit(1).maybeSingle() on app_data: the data of some row, or no row.
SelectFirst == IF app_data = {} THEN {NoRow} ELSE {x.data : x \in app_data}

\* select('*').eq('id', backupId).maybeSingle() on app_backups.
SelectBackup(backupId) ==
    LET found == {x \in app_backups : x.id = backupId}
    IN  IF found = {} THEN {NoRow} ELSE {x.data : x \in found}

\* from('app_backups').insert({ data: state }) answered with how.
AnswerInsert(how, state) ==
    /\ how = "ok" => Cardinality(app_backups) < MaxBackups
    /\ app_backups' = IF how = "ok" THEN InsertBackup(app_backups, state)
                      ELSE app_backups
    /\ UNCHANGED app_data

\* An upsert that is acknowledged without being stored.
AnswerUpsertIgnored(how, state) == UNCHANGED <<app_data, app_backups>>

\* from('app_data').upsert({ id: 'global_state', data: state }) answered with how.
AnswerUpsert(how, state) ==
    /\ app_data' = IF how = "ok" THEN Upsert(app_data, [id |-> GlobalId, data |-> state])
                   ELSE app_data
    /\ UNCHANGED app_backups

\* ------------------------------------------------------------ createBackup
\* createBackup without the error check of lines 90-93.
createBackupResultNoErrorCheck(how) == IF how = "throw" THEN "false" ELSE "true"

\* What createBackup returns for the answer to its insert (lines 90-98).
createBackupResult(how) == IF how = "ok" THEN "true" ELSE "false"

createBackup(state) ==
    /\ IF supabaseClient = NoClient
       THEN /\ ret' = Returned("createBackup", state, "false")
            /\ UNCHANGED inflight
       ELSE /\ Room
            /\ inflight' = Put(Call("createBackup", "insert", state, 0))
            /\ ret' = NoRet
    /\ UNCHANGED <<adapter, tables>>

createBackupResume(r, how) ==
    /\ r \in Suspended /\ r.op = "createBackup"
    /\ AnswerInsert(how, r.arg)
    /\ inflight' = Drop(r)
    /\ ret' = Returned("createBackup", r.arg, createBackupResult(how))
    /\ UNCHANGED adapter

\* ---------------------------------------------------------------- loadData
\* What loadData does with the answer to its select (lines 116-123).
loadDataResult(how, data) ==
    IF how # "ok" THEN "throw"
    ELSE IF data = NoRow THEN Null
    ELSE data

loadData ==
    /\ IF supabaseClient = NoClient
       THEN /\ ret' = Returned("loadData", Null, "throw")
            /\ UNCHANGED inflight
       ELSE /\ Room
            /\ inflight' = Put(Call("loadData", "select", Null, 0))
            /\ ret' = NoRet
    /\ UNCHANGED <<adapter, tables>>

\* A loadData that keeps what it loaded in the cache.
loadDataResumeCaching(r, how) ==
    /\ r \in Suspended /\ r.op = "loadData"
    /\ inflight' = Drop(r)
    /\ \E data \in SelectFirst :
           /\ ret' = Returned("loadData", Null, loadDataResult(how, data))
           /\ lastSavedState' = IF loadDataResult(how, data) = "throw" THEN lastSavedState
                                ELSE loadDataResult(how, data)
    /\ UNCHANGED <<supabaseClient, autoBackupTimer, localStorage, window, timers,
                   channels, tables>>

\* Lines 110-123: the answer to the select.
loadDataResume(r, how) ==
    /\ r \in Suspended /\ r.op = "loadData"
    /\ inflight' = Drop(r)
    /\ \E data \in SelectFirst : ret' = Returned("loadData", Null, loadDataResult(how, data))
    /\ UNCHANGED <<adapter, tables>>

\* ---------------------------------------------------------------- saveData
\* saveData without the cache update of line 135.
saveDataNoCache(state) ==
    /\ IF supabaseClient = NoClient
       THEN /\ ret' = Returned("saveData", state, "throw")
            /\ UNCHANGED inflight
       ELSE /\ Room
            /\ inflight' = Put(Call("saveData", "backup", state, 0))
            /\ ret' = NoRet
    /\ UNCHANGED <<adapter, tables>>

\* Lines 130-137, up to the await of the backup insert.
saveData(state) ==
    /\ IF supabaseClient = NoClient
       THEN /\ ret' = Returned("saveData", state, "throw")
            /\ UNCHANGED <<lastSavedState, inflight>>
       ELSE /\ Room
            /\ lastSavedState' = state
            /\ inflight' = Put(Call("saveData", "backup", state, 0))
            /\ ret' = NoRet
    /\ UNCHANGED <<supabaseClient, autoBackupTimer, localStorage, window, timers,
                   channels, tables>>

\* saveData without the try/catch of line 137: an exception of the insert ends the call.
saveDataUpsertUncaught(r, how) ==
    /\ r \in Suspended /\ r.op = "saveData" /\ r.pc = "backup"
    /\ AnswerInsert(how, r.arg)
    /\ IF how = "throw"
       THEN /\ inflight' = Drop(r)
            /\ ret' = Returned("saveData", r.arg, "throw")
       ELSE /\ inflight' = Swap(r, [r EXCEPT !.pc = "upsert"])
            /\ ret' = NoRet
    /\ UNCHANGED adapter

\* Line 137: try { await createBackup(state) } catch {}; whatever the answer to
\* the insert, the upsert of lines 138-141 is issued next.
saveDataUpsert(r, how) ==
    /\ r \in Suspended /\ r.op = "saveData" /\ r.pc = "backup"
    /\ AnswerInsert(how, r.arg)
    /\ inflight' = Swap(r, [r EXCEPT !.pc = "upsert"])
    /\ ret' = NoRet
    /\ UNCHANGED adapter

\* saveData upserting the cache instead of its argument.
saveDataResumeFromCache(r, how) ==
    /\ r \in Suspended /\ r.op = "saveData" /\ r.pc = "upsert"
    /\ AnswerUpsert(how, lastSavedState)
    /\ inflight' = Drop(r)
    /\ ret' = Returned("saveData", r.arg, IF how = "ok" THEN "true" ELSE "throw")
    /\ UNCHANGED adapter

\* Lines 143-147: the answer to the upsert.
saveDataResume(r, how) ==
    /\ r \in Suspended /\ r.op = "saveData" /\ r.pc = "upsert"
    /\ AnswerUpsert(how, r.arg)
    /\ inflight' = Drop(r)
    /\ ret' = Returned("saveData", r.arg, IF how = "ok" THEN "true" ELSE "throw")
    /\ UNCHANGED adapter

\* ------------------------------------------------------------- listBackups
listBackups ==
    /\ IF supabaseClient = NoClient
       THEN /\ ret' = Returned("listBackups", Null, <<>>)
            /\ UNCHANGED inflight
       ELSE /\ Room
            /\ inflight' = Put(Call("listBackups", "select", Null, 0))
            /\ ret' = NoRet
    /\ UNCHANGED <<adapter, tables>>

\* listBackups without the error check of lines 163-166 and the catch of line 168.
listBackupsResumeNoErrorCheck(r, how) ==
    /\ r \in Suspended /\ r.op = "listBackups"
    /\ inflight' = Drop(r)
    /\ ret' = Returned("listBackups", Null, OrderDesc(app_backups))
    /\ UNCHANGED <<adapter, tables>>

\* Lines 159-171: the answer to the select.
listBackupsResume(r, how) ==
    /\ r \in Suspended /\ r.op = "listBackups"
    /\ inflight' = Drop(r)
    /\ ret' = Returned("listBackups", Null,
                       IF how = "ok" THEN OrderDesc(app_backups) ELSE <<>>)
    /\ UNCHANGED <<adapter, tables>>

\* ----------------------------------------------------------- restoreBackup
restoreBackup(backupId) ==
    /\ IF supabaseClient = NoClient
       THEN /\ ret' = Returned("restoreBackup", backupId, "throw")
            /\ UNCHANGED inflight
       ELSE /\ Room
            /\ inflight' = Put(Call("restoreBackup", "lookup", Null, backupId))
            /\ ret' = NoRet
    /\ UNCHANGED <<adapter, tables>>

\* restoreBackup without the not-found return of lines 220-223.
restoreBackupLookupNoCheck(r, how) ==
    /\ r \in Suspended /\ r.op = "restoreBackup" /\ r.pc = "lookup"
    /\ \E data \in SelectBackup(r.id) :
           IF how # "ok"
           THEN /\ inflight' = Drop(r)
                /\ ret' = Returned("restoreBackup", r.id, "false")
           ELSE /\ inflight' = Swap(r, [r EXCEPT !.pc = "upsert",
                                          !.st = IF data = NoRow THEN Null ELSE data])
                /\ ret' = NoRet
    /\ UNCHANGED <<adapter, tables>>

\* Lines 216-227: the answer to the lookup.  An error is thrown inside the try
\* block and caught at line 235, which returns false.
restoreBackupLookup(r, how) ==
    /\ r \in Suspended /\ r.op = "restoreBackup" /\ r.pc = "lookup"
    /\ \E data \in SelectBackup(r.id) :
           IF how # "ok" \/ data = NoRow
           THEN /\ inflight' = Drop(r)
                /\ ret' = Returned("restoreBackup", r.id, "false")
           ELSE /\ inflight' = Swap(r, [r EXCEPT !.pc = "upsert", !.st = data])
                /\ ret' = NoRet
    /\ UNCHANGED <<adapter, tables>>

\* restoreBackup without the cache update of line 233.
restoreBackupResumeNoCache(r, how) ==
    /\ r \in Suspended /\ r.op = "restoreBackup" /\ r.pc = "upsert"
    /\ AnswerUpsert(how, r.st)
    /\ inflight' = Drop(r)
    /\ ret' = Returned("restoreBackup", r.id, IF how # "ok" THEN "false" ELSE "true")
    /\ UNCHANGED adapter

\* Lines 228-237: the answer to the upsert; a failure is thrown inside the try
\* block and caught at line 235 too.
restoreBackupResume(r, how) ==
    /\ r \in Suspended /\ r.op = "restoreBackup" /\ r.pc = "upsert"
    /\ AnswerUpsert(how, r.st)
    /\ inflight' = Drop(r)
    /\ IF how # "ok"
       THEN /\ ret' = Returned("restoreBackup", r.id, "false")
            /\ UNCHANGED lastSavedState
       ELSE /\ lastSavedState' = r.st
            /\ ret' = Returned("restoreBackup", r.id, "true")
    /\ UNCHANGED <<supabaseClient, autoBackupTimer, localStorage, window, timers,
                   channels>>

\* --------------------------------------------------------- startAutoBackup
Max(a, b) == IF a >= b THEN a ELSE b

\* Math.max(1, parseInt(intervalMinutes || '1')) * 60 * 1000 for an integer argument.
IntervalMs(intervalMinutes) ==
    Max(1, IF intervalMinutes = 0 THEN 1 ELSE intervalMinutes) * 60 * 1000

\* clearInterval(id).
ClearInterval(active, id) == {t \in active : t.id # id}

\* startAutoBackup without the clearInterval of lines 179-182.
CancelNothing == timers

\* Lines 179-182: the timers left active once the previous timer is cancelled.
CancelPrevious ==
    IF autoBackupTimer # NoTimer THEN ClearInterval(timers, autoBackupTimer) ELSE timers

\* setInterval returns an id that names no active timer and differs from the
\* handle being replaced: the smallest such id.
FreshTimerIds(active) ==
    {i \in 1..MaxTimers : i # autoBackupTimer /\ \A t \in active : t.id # i}

SetInterval(active) ==
    CHOOSE i \in FreshTimerIds(active) : \A j \in FreshTimerIds(active) : i <= j

\* A startAutoBackup that also abandons the inserts of the previous timer's ticks.
startAutoBackupAbort(intervalMinutes) ==
    /\ FreshTimerIds(CancelPrevious) # {}
    /\ LET id == SetInterval(CancelPrevious)
       IN  /\ timers' = CancelPrevious \cup
                            {[id |-> id, ms |-> IntervalMs(intervalMinutes)]}
           /\ autoBackupTimer' = id
           /\ ret' = Returned("startAutoBackup", intervalMinutes, id)
    /\ inflight' = [r \in {x \in Suspended : x.op # "tick"} |-> inflight[r]]
    /\ UNCHANGED <<supabaseClient, lastSavedState, localStorage, window, channels,
                   tables>>

\* Lines 178-201.
startAutoBackup(intervalMinutes) ==
    /\ FreshTimerIds(CancelPrevious) # {}
    /\ LET id == SetInterval(CancelPrevious)
       IN  /\ timers' = CancelPrevious \cup
                            {[id |-> id, ms |-> IntervalMs(intervalMinutes)]}
           /\ autoBackupTimer' = id
           /\ ret' = Returned("startAutoBackup", intervalMinutes, id)
    /\ UNCHANGED <<supabaseClient, lastSavedState, localStorage, window, channels,
                   tables, inflight>>

\* A tick that prefers the cache to the host accessor.
TickStateCacheFirst(acc) ==
    LET got == IF acc \in {"absent", "throws"} THEN Null ELSE acc
    IN  IF Truthy(lastSavedState) THEN lastSavedState ELSE got

\* Lines 186-190: the state a tick snapshots.
TickState(acc) ==
    LET got == IF acc \in {"absent", "throws"} THEN Null ELSE acc
    IN  IF Truthy(got) THEN got ELSE lastSavedState

\* The interval callback of timer t fires (lines 184-195), up to the await
\* inside createBackup.
Tick(t, acc) ==
    /\ t \in timers
    /\ LET in == [timer |-> t.id, acc |-> acc]
       IN  IF ~Truthy(TickState(acc))
           THEN /\ ret' = Returned("tick", in, "skipped")
                /\ UNCHANGED inflight
           ELSE IF supabaseClient = NoClient
           THEN /\ ret' = Returned("tick", in, "false")
                /\ UNCHANGED inflight
           ELSE /\ Room
                /\ inflight' = Put(Call("tick", "insert", TickState(acc), t.id))
                /\ ret' = Returned("tick", in, "promise")
    /\ UNCHANGED <<adapter, tables>>

\* createBackup returns inside the callback and the callback ends (lines 195-198).
TickResume(r, how) ==
    /\ r \in Suspended /\ r.op = "tick"
    /\ AnswerInsert(how, r.arg)
    /\ inflight' = Drop(r)
    /\ ret' = Returned("tickEnd", r.arg, createBackupResult(how))
    /\ UNCHANGED adapter

\* ------------------------------------------------------- subscribeRealtime
subscribeRealtime(onUpdate) ==
    /\ IF supabaseClient = NoClient
       THEN /\ ret' = Returned("subscribeRealtime", onUpdate, "throw")
            /\ UNCHANGED channels
       ELSE /\ Len(channels) < MaxChannels
            /\ channels' = Append(channels, onUpdate)
            /\ ret' = Returned("subscribeRealtime", onUpdate, "channel")
    /\ UNCHANGED <<supabaseClient, autoBackupTimer, lastSavedState, localStorage,
                   window, timers, tables, inflight>>

\* The backend notifies channel ch of a change: the handler of lines 250-255
\* calls loadData (the client handle is set: the channel was made from it).
Notify(ch) ==
    /\ ch \in 1..Len(channels)
    /\ Room
    /\ inflight' = Put(Call("reload", "select", channels[ch], ch))
    /\ ret' = NoRet
    /\ UNCHANGED <<adapter, tables>>

\* Line 253: the value onUpdate is called with, or "nocall".
ReloadCallback(onUpdate, state) ==
    IF state # "throw" /\ Truthy(state) /\ onUpdate = "function"
    THEN state ELSE "nocall"

ReloadResume(r, how) ==
    /\ r \in Suspended /\ r.op = "reload"
    /\ inflight' = Drop(r)
    /\ \E data \in SelectFirst :
           ret' = Returned("reload", r.arg, ReloadCallback(r.arg, loadDataResult(how, data)))
    /\ UNCHANGED <<adapter, tables>>

\* ------------------------------------------------------------------- specs
\* Arguments of initSupabase on the page of Init.
ArgCreds == {[url |-> "", key |-> NoKey], [url |-> "ua", key |-> Key3]}
BackupIds == 1..(MaxBackups + 1)

Initialize == \E c \in ArgCreds : initSupabase(c.url, c.key)

\* Saves and restores.
Next ==
    \/ Initialize
    \/ \E state \in States : saveData(state)
    \/ \E id \in BackupIds : restoreBackup(id)
    \/ \E r \in Suspended : \E how \in Outcomes :
           \/ saveDataUpsert(r, how)
           \/ saveDataResume(r, how)
           \/ restoreBackupLookup(r, how)
           \/ restoreBackupResume(r, how)

Spec == Init /\ [][Next]_vars

\* The state store: saves and loads.
NextStore ==
    \/ Initialize
    \/ loadData
    \/ \E state \in Values : saveData(state)
    \/ \E r \in Suspended : \E how \in Outcomes :
           \/ loadDataResume(r, how)
           \/ saveDataUpsert(r, how)
           \/ saveDataResume(r, how)

SpecStore == Init /\ [][NextStore]_vars

\* The backup manager beside saves.
NextBackup ==
    \/ Initialize
    \/ \E state \in Values : createBackup(state)
    \/ listBackups
    \/ \E state \in States : saveData(state)
    \/ \E r \in Suspended : \E how \in Outcomes :
           \/ createBackupResume(r, how)
           \/ listBackupsResume(r, how)
           \/ saveDataUpsert(r, how)
           \/ saveDataResume(r, how)

SpecBackup == Init /\ [][NextBackup]_vars

\* The auto-backup timer beside saves.
NextTimer ==
    \/ Initialize
    \/ \E state \in States : saveData(state)
    \/ \E m \in IntervalArgs : startAutoBackup(m)
    \/ \E t \in timers : \E acc \in Accessors : Tick(t, acc)
    \/ \E r \in Suspended : \E how \in Outcomes :
           \/ saveDataUpsert(r, how)
           \/ saveDataResume(r, how)
           \/ TickResume(r, how)

SpecTimer == Init /\ [][NextTimer]_vars

\* The realtime subscription beside saves.
NextRealtime ==
    \/ Initialize
    \/ \E state \in Values : saveData(state)
    \/ \E f \in Callbacks : subscribeRealtime(f)
    \/ \E ch \in 1..MaxChannels : Notify(ch)
    \/ \E r \in Suspended : \E how \in Outcomes :
           \/ saveDataUpsert(r, how)
           \/ saveDataResume(r, how)
           \/ ReloadResume(r, how)

SpecRealtime == Init /\ [][NextRealtime]_vars

\* Every operation that writes a table: backups, saves, restores and ticks.
NextWrite ==
    \/ Initialize
    \/ createBackup("s2")
    \/ saveData("s1")
    \/ \E id \in 1..MaxBackups : restoreBackup(id)
    \/ startAutoBackup(1)
    \/ \E t \in timers : Tick(t, "absent")
    \/ \E r \in Suspended : \E how \in Outcomes :
           \/ createBackupResume(r, how)
           \/ saveDataUpsert(r, how)
           \/ saveDataResume(r, how)
           \/ restoreBackupLookup(r, how)
           \/ restoreBackupResume(r, how)
           \/ TickResume(r, how)

SpecWrite == Init /\ [][NextWrite]_vars

\* A page opened on tables that earlier sessions may have written: the
\* adapter is fresh, the primary row and a backup row exist or not.
InitRead ==
    /\ supabaseClient = NoClient
    /\ autoBackupTimer = NoTimer
    /\ lastSavedState = Null
    /\ timers = {}
    /\ channels = <<>>
    /\ inflight = EmptyBag
    /\ ret = NoRet
    /\ app_data \in {{}, {[id |-> GlobalId, data |-> "s1"]}}
    /\ app_backups \in {{}, InsertBackup({}, "s1")}
    /\ localStorage = [url |-> "", key |-> NoKey]
    /\ window = [SUPABASE_URL |-> "", SUPABASE_ANON_KEY |-> NoKey,
                 supabase |-> TRUE, storage |-> TRUE]

\* Loads, listings, realtime reloads and the timer, without saves or restores.
NextRead ==
    \/ Initialize
    \/ loadData
    \/ listBackups
    \/ \E f \in Callbacks : subscribeRealtime(f)
    \/ \E ch \in 1..MaxChannels : Notify(ch)
    \/ startAutoBackup(1)
    \/ \E t \in timers : \E acc \in {"absent", "s1"} : Tick(t, acc)
    \/ \E r \in Suspended : \E how \in Outcomes :
           \/ loadDataResume(r, how)
           \/ listBackupsResume(r, how)
           \/ ReloadResume(r, how)
           \/ TickResume(r, how)

SpecRead == InitRead /\ [][NextRead]_vars

\* The connection manager on any page.
NextConn == \E url \in ArgUrls : \E key \in ArgKeys : initSupabase(url, key)

SpecConn == InitConn /\ [][NextConn]_vars

\* ------------------------------------------------------------------ claims
\* The step resumes (or ends) the suspended call r.
Resumed(r) == CopiesIn(r, inflight') < CopiesIn(r, inflight)
\* The step suspends one more call like r.
Started(r) == CopiesIn(r, inflight') > CopiesIn(r, inflight)

SaveAt(pc, state) == Call("saveData", pc, state, 0)
BackupIdsUsed == {x.id : x \in app_backups}
\* The snapshot stored in the backup row id.
Snapshot(id) == (CHOOSE x \in app_backups : x.id = id).data

\* C1: a saveData call on an initialized adapter first suspends at the insert
\* into the backup table without touching the primary table; the upsert is
\* issued only by a call that waited for that insert; and every step that ends
\* the wait for the insert, whatever the answer (ok, error, exception), leaves
\* the call suspended at the upsert and returns nothing.
C1_BackupThenUpsert ==
    [][\A state \in Values :
           /\ Started(SaveAt("backup", state)) =>
                  /\ supabaseClient # NoClient
                  /\ UNCHANGED tables
                  /\ ~Started(SaveAt("upsert", state))
           /\ Started(SaveAt("upsert", state)) =>
                  /\ Resumed(SaveAt("backup", state))
                  /\ UNCHANGED app_data
           /\ Resumed(SaveAt("backup", state)) =>
                  /\ Started(SaveAt("upsert", state))
                  /\ ret' = NoRet]_vars

\* A saveData waits for its upsert although its backup insert added no row.
C1_Witness ==
    /\ app_backups = {}
    /\ \E r \in Suspended : r.op = "saveData" /\ r.pc = "upsert"

\* C2: restoreBackup throws when the lookup or the upsert fails, and returns
\* false only when the lookup succeeds and finds no row with that id.
C2_RestoreThrowsOnFailure ==
    [][\A r \in Suspended : \A how \in Outcomes :
           (restoreBackupLookup(r, how) \/ restoreBackupResume(r, how)) =>
               /\ how # "ok" => ret'.op = "restoreBackup" /\ ret'.val = "throw"
               /\ (inflight' = Drop(r) /\ ret'.val = "false") =>
                      /\ how = "ok"
                      /\ r.pc = "lookup"
                      /\ r.id \notin BackupIdsUsed]_vars

\* C3: a restoreBackup whose id names no backup row returns false when its
\* lookup is answered, issues no upsert, and leaves the primary table, the
\* backup table and the cache as they were; so does the call itself.
C3_UnknownIdNoWrite ==
    [][\A id \in BackupIds :
           LET r == Call("restoreBackup", "lookup", Null, id)
           IN  /\ Started(r) => UNCHANGED <<tables, lastSavedState>>
               /\ (Resumed(r) /\ id \notin BackupIdsUsed) =>
                      /\ ret' = Returned("restoreBackup", id, "false")
                      /\ inflight' = Drop(r)
                      /\ UNCHANGED <<tables, lastSavedState>>]_vars

\* restoreBackup of an unknown id has returned false with a primary row and a
\* cached state in place.
C3_Witness ==
    /\ ret = Returned("restoreBackup", MaxBackups + 1, "false")
    /\ app_data # {}
    /\ Truthy(lastSavedState)
    /\ app_backups # {}

\* C4: a restoreBackup that waits for its upsert holds the snapshot of the
\* backup row it names; when the upsert succeeds it returns true, the primary
\* table is the one row 'global_state' with that snapshot and the cache is
\* that snapshot; and it returns true only so.
C4_RestoreWritesSnapshot ==
    [][\A r \in Suspended :
           (r.op = "restoreBackup" /\ r.pc = "upsert") =>
               /\ r.id \in BackupIdsUsed /\ r.st = Snapshot(r.id)
               /\ (restoreBackupResume(r, "ok")
                       \/ (Resumed(r) /\ ret'.val = "true")) =>
                      /\ ret' = Returned("restoreBackup", r.id, "true")
                      /\ app_data' = {[id |-> GlobalId, data |-> Snapshot(r.id)]}
                      /\ lastSavedState' = Snapshot(r.id)
                      /\ UNCHANGED app_backups]_vars

\* restoreBackup of the older of two different snapshots has returned true
\* and the primary row and the cache hold it.
C4_Witness ==
    /\ ret = Returned("restoreBackup", 1, "true")
    /\ Cardinality(app_backups) = 2
    /\ Snapshot(1) # Snapshot(2)
    /\ app_data = {[id |-> GlobalId, data |-> Snapshot(1)]}
    /\ lastSavedState = Snapshot(1)

\* C5: while the adapter is uninitialized no operation starts a timer or
\* leaves a backend request pending.
C5_FailFastUninitialized ==
    supabaseClient = NoClient => (timers = {} /\ inflight = EmptyBag)

\* C6: at most one interval timer is active, it is the one the handle names,
\* and a tick that just fired came from that timer.
C6_OneTimer ==
    /\ Cardinality(timers) <= 1
    /\ \A t \in timers : t.id = autoBackupTimer
    /\ ret.op = "tick" => ret.in.timer = autoBackupTimer

\* The second timer has ticked, with the first one cancelled.
C6_Witness ==
    /\ autoBackupTimer = 2
    /\ ret.op = "tick"
    /\ ret.in.timer = 2

\* C7: a failing initSupabase leaves the stored credentials and the client
\* handle as they were.
C7_FailedInitChangesNothing ==
    [][(ret'.op = "initSupabase" /\ ret'.val # "client") =>
           UNCHANGED <<localStorage, supabaseClient>>]_vars

\* C8: initSupabase with a resolved key that does not have three dot-separated
\* segments fails, builds no client and issues no request.
C8_MalformedKeyFails ==
    [][(ret'.op = "initSupabase" /\ Segments(ResolveKey(ret'.in.key)) # 3) =>
           /\ ret'.val # "client"
           /\ UNCHANGED <<supabaseClient, inflight>>]_vars

\* The data of the primary row, null when the table is empty.
PrimaryData == IF app_data = {} THEN Null ELSE (CHOOSE x \in app_data : TRUE).data

\* C9: once saveData(s) has returned true the primary table is the one row
\* 'global_state' with data s until the next write returns, and a loadData
\* that has returned without throwing returned the data of that row.
C9_SaveThenLoad ==
    /\ (ret.op = "saveData" /\ ret.val = "true") =>
           app_data = {[id |-> GlobalId, data |-> ret.in]}
    /\ (ret.op = "loadData" /\ ret.val # "throw") =>
           /\ Cardinality(app_data) <= 1
           /\ ret.val = PrimaryData

\* loadData returned the state of the last save, made after an earlier save
\* of another state.
C9_Witness ==
    /\ ret = Returned("loadData", Null, "s2")
    /\ lastSavedState = "s2"
    /\ \E x \in app_backups : x.data = "s1"

\* C10: a tick snapshots what the host accessor returned when that is a state
\* and the cache otherwise; without a state it issues no insert; with one it
\* calls createBackup once with it (one insert request on an initialized
\* adapter, which adds at most one row); and neither the tick nor its end
\* propagates a failure.
C10_TickSnapshot ==
    [][/\ ret'.op = "tick" =>
              LET acc == ret'.in.acc
                  want == IF acc \in States THEN acc ELSE lastSavedState
              IN  /\ acc \in Accessors
                  /\ \E t \in timers : t.id = ret'.in.timer
                  /\ UNCHANGED <<tables, lastSavedState>>
                  /\ ret'.val # "throw"
                  /\ want \notin States =>
                         inflight' = inflight /\ ret'.val = "skipped"
                  /\ (want \in States /\ supabaseClient # NoClient) =>
                         inflight' = Put(Call("tick", "insert", want, ret'.in.timer))
                  /\ (want \in States /\ supabaseClient = NoClient) =>
                         inflight' = inflight /\ ret'.val = "false"
       /\ ret'.op = "tickEnd" =>
              /\ ret'.val \in {"true", "false"}
              /\ \E r \in Suspended :
                     /\ r.op = "tick" /\ r.arg = ret'.in
                     /\ inflight' = Drop(r)
                     /\ app_backups' = IF ret'.val = "true"
                                       THEN InsertBackup(app_backups, r.arg)
                                       ELSE app_backups
       /\ (\E r \in Suspended : r.op = "tick" /\ (Started(r) \/ Resumed(r))) =>
              ret'.op \in {"tick", "tickEnd"}]_vars

\* A tick snapshots the state the accessor returned while the cache holds
\* another state.
C10_Witness ==
    /\ ret.op = "tick" /\ ret.val = "promise"
    /\ ret.in.acc \in States
    /\ lastSavedState \in States
    /\ ret.in.acc # lastSavedState
    /\ \E r \in Suspended : r.op = "tick" /\ r.arg = ret.in.acc

\* rows lists every backup row once, newest first by creation timestamp.
NewestFirst(rows) ==
    /\ Len(rows) = Cardinality(app_backups)
    /\ {rows[i] : i \in 1..Len(rows)} = app_backups
    /\ \A i \in 1..Len(rows) : \A j \in 1..Len(rows) :
           i < j => rows[i].created_at > rows[j].created_at

\* C11: listBackups never throws: it returns a sequence, which is empty when
\* the adapter is uninitialized (and then no request is issued) and when the
\* select is answered with an error or an exception, and which otherwise lists
\* every backup row once, newest first by creation timestamp.
C11_ListNeverThrows ==
    [][/\ ret'.op = "listBackups" =>
              /\ ret'.val = <<>> \/ NewestFirst(ret'.val)
              /\ supabaseClient = NoClient => (ret'.val = <<>> /\ UNCHANGED inflight)
       /\ \A r \in Suspended :
              (r.op = "listBackups" /\ Resumed(r)) =>
                  /\ ret'.op = "listBackups"
                  /\ \A how \in Outcomes :
                         listBackupsResume(r, how) =>
                             IF how = "ok" THEN NewestFirst(ret'.val)
                             ELSE ret'.val = <<>>]_vars

\* listBackups has returned two backup rows, the newer one first.
C11_Witness ==
    /\ ret.op = "listBackups"
    /\ Len(ret.val) = 2
    /\ ret.val[1].created_at > ret.val[2].created_at
    /\ ret.val[1].data # ret.val[2].data

\* C12: createBackup never throws and returns a boolean: false without a
\* request when the adapter is uninitialized; otherwise true exactly when its
\* insert was carried out, which added exactly one row holding its argument,
\* and false, with the backup table unchanged, when the insert was answered
\* with an error or an exception.
C12_CreateBackupBoolean ==
    [][/\ ret'.op = "createBackup" =>
              /\ ret'.val \in {"true", "false"}
              /\ ret'.val = "true" =>
                     /\ app_backups' = InsertBackup(app_backups, ret'.in)
                     /\ Cardinality(app_backups') = Cardinality(app_backups) + 1
              /\ ret'.val = "false" => UNCHANGED app_backups
              /\ supabaseClient = NoClient => (ret'.val = "false" /\ UNCHANGED inflight)
       /\ \A r \in Suspended :
              (r.op = "createBackup" /\ Resumed(r)) =>
                  /\ ret'.op = "createBackup" /\ ret'.in = r.arg
                  /\ \A how \in Outcomes :
                         createBackupResume(r, how) => (ret'.val = "true" <=> how = "ok")]_vars

\* createBackup has returned true for the second of two backups.
C12_Witness ==
    /\ ret = Returned("createBackup", "s2", "true")
    /\ Cardinality(app_backups) = 2
    /\ \E x \in app_backups : x.id = 2 /\ x.data = "s2"

\* C13: every notification starts a reload, and the handler ends with the
\* reload; with a function as callback, a reload that succeeds calls it once
\* with the value loadData returned, whatever that value is (null included),
\* and a reload that fails calls nothing and propagates nothing.
C13_ReloadInvokesCallback ==
    [][/\ \A ch \in 1..Len(channels) :
              Notify(ch) => Started(Call("reload", "select", channels[ch], ch))
       /\ \A r \in Suspended :
              (r.op = "reload" /\ Resumed(r)) =>
                  /\ ret'.op = "reload"
                  /\ r.arg = "function" =>
                         \A how \in Outcomes :
                             ReloadResume(r, how) =>
                                 IF how = "ok" THEN ret'.val \in {x.data : x \in app_data} \cup {Null}
                                 ELSE ret'.val = "nocall"]_vars

\* C14: no step removes or changes a backup row, and a step adds at most one;
\* the primary table holds at most one row and only the row 'global_state';
\* a createBackup that returns true (called directly or by a tick) and a
\* saveData whose backup insert is carried out add exactly one backup row
\* holding their state, and nothing else adds a backup row; only a saveData
\* or a restoreBackup that returns true changes the primary table.
C14_AppendOnlyOnePrimary ==
    [][/\ app_backups \subseteq app_backups'
       /\ Cardinality(app_backups') <= Cardinality(app_backups) + 1
       /\ Cardinality(app_data') <= 1
       /\ \A x \in app_data' : x.id = GlobalId
       /\ (ret'.op \in {"createBackup", "tickEnd"} /\ ret'.val = "true") =>
              /\ app_backups' = InsertBackup(app_backups, ret'.in)
              /\ Cardinality(app_backups') = Cardinality(app_backups) + 1
       /\ \A r \in Suspended :
              saveDataUpsert(r, "ok") =>
                  /\ app_backups' = InsertBackup(app_backups, r.arg)
                  /\ Cardinality(app_backups') = Cardinality(app_backups) + 1
       /\ app_backups' # app_backups =>
              \/ ret'.op \in {"createBackup", "tickEnd"} /\ ret'.val = "true"
              \/ \E state \in States : Resumed(SaveAt("backup", state))
       /\ app_data' # app_data =>
              /\ ret'.op \in {"saveData", "restoreBackup"}
              /\ ret'.val = "true"
              /\ UNCHANGED app_backups]_vars

\* A tick has added the second backup row, beside one of a direct
\* createBackup, with the primary table holding the one row of a save.
C14_Witness ==
    /\ ret = Returned("tickEnd", "s1", "true")
    /\ Cardinality(app_backups) = 2
    /\ \E x \in app_backups : x.data = "s2"
    /\ app_data = {[id |-> GlobalId, data |-> "s1"]}

\* v is the first non-empty of arg, stored and fallback, in that order.
InOrder(arg, stored, fallback, empty, v) ==
    /\ arg # empty => v = arg
    /\ (arg = empty /\ stored # empty) => v = stored
    /\ (arg = empty /\ stored = empty) => v = fallback

\* C15 as stated: a successful initSupabase built the client from the endpoint
\* and the key resolved in the order argument, local storage, global fallback,
\* and local storage then holds exactly that endpoint and key.
C15_InitResolvesAndPersists ==
    [][(ret'.op = "initSupabase" /\ ret'.val = "client") =>
           /\ InOrder(ret'.in.url, localStorage.url, window.SUPABASE_URL, "",
                      supabaseClient'.url)
           /\ InOrder(ret'.in.key, localStorage.key, window.SUPABASE_ANON_KEY, NoKey,
                      supabaseClient'.key)
           /\ localStorage' = supabaseClient']_vars

\* C15 (amended): a successful initSupabase built the client from the endpoint
\* and the key resolved, each on its own, in the order argument, local storage
\* when it can be read, global fallback; when local storage can be written it
\* then holds exactly that endpoint and key, and when storage access throws
\* the call succeeds all the same and local storage is as it was.
C15_InitResolvesPersistsIfStorage ==
    [][(ret'.op = "initSupabase" /\ ret'.val = "client") =>
           LET stored == IF window.storage THEN localStorage
                         ELSE [url |-> "", key |-> NoKey]
           IN  /\ InOrder(ret'.in.url, stored.url, window.SUPABASE_URL, "",
                          supabaseClient'.url)
               /\ InOrder(ret'.in.key, stored.key, window.SUPABASE_ANON_KEY, NoKey,
                          supabaseClient'.key)
               /\ supabaseClient' # NoClient
               /\ window.storage => localStorage' = supabaseClient'
               /\ ~window.storage => UNCHANGED localStorage]_vars

\* initSupabase succeeded with the key of its argument and the stored
\* endpoint, although a global fallback endpoint is set, and stored that pair.
C15_Witness ==
    /\ ret.op = "initSupabase" /\ ret.val = "client"
    /\ ret.in.url = "" /\ ret.in.key = Key3
    /\ window.SUPABASE_URL = "uw"
    /\ supabaseClient = [url |-> "us", key |-> Key3]
    /\ localStorage = supabaseClient

\* C16: startAutoBackup cancels the timer it replaces and nothing else: it
\* leaves every suspended call and both tables as they were, and the one timer
\* active afterwards is a new one; a tick fires only from the timer the handle
\* names, so never from a replaced one; and the insert of a tick suspended
\* when its timer was replaced can still be answered, the answer ends that
\* tick, and when the insert is carried out its row is written.
C16_CancelsOnlyTimer ==
    [][/\ ret'.op = "startAutoBackup" =>
              /\ UNCHANGED <<inflight, tables>>
              /\ \A t \in timers : t \notin timers' /\ t.id # autoBackupTimer'
              /\ \A t \in timers' : t.id = autoBackupTimer'
       /\ ret'.op = "tick" =>
              /\ ret'.in.timer = autoBackupTimer
              /\ \E t \in timers : t.id = ret'.in.timer
       /\ \A r \in Suspended :
              (r.op = "tick" /\ r.id # autoBackupTimer) =>
                  /\ Cardinality(app_backups) < MaxBackups => ENABLED TickResume(r, "ok")
                  /\ Resumed(r) =>
                         /\ ret'.op = "tickEnd" /\ ret'.in = r.arg
                         /\ ret'.val = "true" =>
                                app_backups' = InsertBackup(app_backups, r.arg)
                         /\ TickResume(r, "ok") => ret'.val = "true"]_vars

\* startAutoBackup has just replaced the timer of a tick whose insert is in
\* flight.
C16_Witness ==
    /\ ret.op = "startAutoBackup"
    /\ \E r \in Suspended : r.op = "tick" /\ r.id # autoBackupTimer
    /\ \A t \in timers : t.id = autoBackupTimer

\* What C17 says of every step but the one that ends a save with a failed
\* upsert: a save on an initialized adapter sets the cache to its state in the
\* step that issues its first request, and no later step of the save changes
\* the cache; a tick without a host accessor snapshots the cache, persisted or
\* not; and the cache changes otherwise only in the step in which a
\* restoreBackup's upsert was carried out, to the state that step stored.
CacheSteps ==
    /\ \A state \in States :
           Started(SaveAt("backup", state)) =>
               /\ lastSavedState' = state
               /\ UNCHANGED tables
    /\ \A r \in Suspended :
           (r.op = "saveData" /\ Resumed(r)) => UNCHANGED lastSavedState
    /\ (ret'.op = "tick" /\ ret'.in.acc = "absent"
            /\ Truthy(lastSavedState) /\ supabaseClient # NoClient) =>
           Started(Call("tick", "insert", lastSavedState, ret'.in.timer))
    /\ lastSavedState' # lastSavedState =>
           \/ \E state \in States : Started(SaveAt("backup", state))
           \/ /\ ret'.op = "restoreBackup" /\ ret'.val = "true"
              /\ app_data' = {[id |-> GlobalId, data |-> lastSavedState']}

\* The step ends a save whose upsert failed.
SaveFailed(r) ==
    /\ r.op = "saveData" /\ r.pc = "upsert" /\ Resumed(r)
    /\ ret'.op = "saveData" /\ ret'.val = "throw"

Consistent == lastSavedState = PrimaryData

\* What holds throughout an execution in which saves and restores do not
\* overlap and every backend call succeeds: no call is suspended and the cache
\* is the primary row's data, or one call is suspended and it is a save whose
\* state is in the cache or a restore that has not written yet.
SoloGood ==
    \/ inflight = EmptyBag /\ Consistent
    \/ \E r \in Suspended :
           /\ inflight = SetToBag({r})
           /\ \/ r.op = "saveData" /\ lastSavedState = r.arg
              \/ r.op = "restoreBackup" /\ Consistent

\* A step of such an execution: at most one call is suspended before and
\* after it, and it is an initialization, the start of a call or the
\* continuation of a call whose request was carried out.
SoloOkStep ==
    /\ BagCardinality(inflight) <= 1
    /\ BagCardinality(inflight') <= 1
    /\ \/ Initialize
       \/ \E state \in States : saveData(state)
       \/ \E id \in BackupIds : restoreBackup(id)
       \/ \E r \in Suspended :
              \/ saveDataUpsert(r, "ok")
              \/ saveDataResume(r, "ok")
              \/ restoreBackupLookup(r, "ok")
              \/ restoreBackupResume(r, "ok")

ReadStep ==
    \/ ret'.op \in {"loadData", "listBackups", "reload"}
    \/ Started(Call("loadData", "select", Null, 0))
    \/ Started(Call("listBackups", "select", Null, 0))
    \/ \E ch \in 1..Len(channels) : Started(Call("reload", "select", channels[ch], ch))

\* C19: every step of a loadData, a listBackups and a realtime reload leaves
\* the cache and both tables as they were; so without saveData and
\* restoreBackup the cache stays null whatever is loaded, and every tick
\* without a host accessor skips: it issues no insert and writes no row.
C19_ReadsLeaveCache ==
    [][/\ ReadStep => UNCHANGED <<lastSavedState, app_data, app_backups>>
       /\ lastSavedState' = Null
       /\ (ret'.op = "tick" /\ ret'.in.acc = "absent") =>
              /\ ret'.val = "skipped"
              /\ UNCHANGED <<inflight, app_data, app_backups>>]_vars

\* On an initialized adapter a tick without a host accessor has skipped
\* while a loadData and a listBackups are in flight on tables that hold a
\* primary row and a backup row.
C19_Witness ==
    /\ ret.op = "tick" /\ ret.in.acc = "absent" /\ ret.val = "skipped"
    /\ supabaseClient # NoClient
    /\ app_data = {[id |-> GlobalId, data |-> "s1"]}
    /\ app_backups # {}
    /\ \E r \in Suspended : r.op = "loadData"
    /\ \E r \in Suspended : r.op = "listBackups"
====
